---- MODULE Spec2Model ----
(***************************************************************************)
(* Model of the RAG pipeline of cive202/ai_chatbot:                        *)
(*   - crawler.crawl          bounded breadth-first crawl                  *)
(*   - chunker.chunk_text     overlapping, boundary-aware chunking         *)
(*   - chat.ChatEngine        query / query_stream over two backends,      *)
(*                            and the constructor's model validation       *)
(*   - utils.normalize_url    fragment and trailing-slash removal          *)
(*   - extractor              links for the crawler and content links      *)
(* Strings are modelled as sequences of one-character strings or tokens.   *)
(***************************************************************************)
EXTENDS Integers, Sequences, FiniteSets, TLC

VARIABLES
    \* ---- crawler.crawl ----
    maxPages,   \* config.MAX_PAGES, an input of the crawl
    maxDepth,   \* config.MAX_DEPTH, an input of the crawl
    pc,         \* position of the crawl coroutine
    queue,      \* list of <<url, depth>>
    visited,    \* set of urls
    data,       \* url -> page record
    cur,        \* <<url, depth>> popped by the current iteration
    fetched,    \* log of page.goto calls: <<url, depth>>
    delays,     \* number of asyncio.sleep(DELAY) calls
    \* ---- chunker.chunk_text ----
    text,       \* the text to chunk
    chunk_size, \* parameter chunk_size
    overlap,    \* parameter overlap
    start,      \* local start (0-based)
    chunks,     \* the list of chunks built so far
    slices,     \* log of the iterations: <<start, end, chunk>>
    cpc,        \* position of chunk_text: "loop" or "done"
    \* ---- chat.ChatEngine.query / query_stream ----
    provider,   \* self.llm_provider, fixed at construction
    mode,       \* "query" (blocking) or "stream" (query_stream)
    results,    \* what vector_store.search returned
    context_text, \* local context_text once the fallback has been applied
    status,     \* HTTP status class of the backend's response
    fault,      \* transport error raised by requests (none, connect, timeout)
    frames,     \* the lines received from r.iter_lines() so far
    out,        \* fragments yielded so far; for query, the returned string
    qpc,        \* position of the query
    \* ---- chat.ChatEngine.__init__ ----
    argProvider,  \* argument llm_provider ("" stands for None)
    argModel,     \* argument ollama_model (<<>> stands for None or "")
    envProvider,  \* DEFAULT_LLM_PROVIDER, read from the environment
    envModel,     \* DEFAULT_OLLAMA_MODEL, read from the environment
    llm_provider, \* self.llm_provider
    ollama_model, \* self.ollama_model
    cerr,         \* the ValueError raised by the constructor, or "none"
    kpc,          \* position of the constructor
    \* ---- utils.normalize_url ----
    raw_url,      \* the argument url
    normalized,   \* normalize_url(url)
    renormalized, \* normalize_url(normalize_url(url))
    npc,          \* number of applications so far
    \* ---- extractor.extract_text_and_links ----
    html,         \* the parsed page: its link-bearing elements
    soup,         \* the tree as it is pruned
    allLinks,     \* set all_links
    contentLinks, \* set content_links
    extracted,    \* the returned lists: [content |-> ..., all |-> ...]
    xpc           \* position of extract_text_and_links

crawlVars == <<maxPages, maxDepth, pc, queue, visited, data, cur, fetched, delays>>

chunkVars == <<text, chunk_size, overlap, start, chunks, slices, cpc>>

chatVars == <<provider, mode, results, context_text, status, fault, frames, out, qpc>>

constructVars ==
    <<argProvider, argModel, envProvider, envModel, llm_provider, ollama_model,
      cerr, kpc>>

normVars == <<raw_url, normalized, renormalized, npc>>

extractVars == <<html, soup, allLinks, contentLinks, extracted, xpc>>

vars == <<crawlVars, chunkVars, chatVars, constructVars, normVars, extractVars>>

\* what the crawler, the chunker, the chat engine, the constructor,
\* normalize_url and the extractor leave alone
notCrawl == <<chunkVars, chatVars, constructVars, normVars, extractVars>>
notChunk == <<crawlVars, chatVars, constructVars, normVars, extractVars>>
notChat == <<crawlVars, chunkVars, constructVars, normVars, extractVars>>
notConstruct == <<crawlVars, chunkVars, chatVars, normVars, extractVars>>
notNorm == <<crawlVars, chunkVars, chatVars, constructVars, extractVars>>
notExtract == <<crawlVars, chunkVars, chatVars, constructVars, normVars>>

----------------------------------------------------------------------------
(* Bounds of the model *)

MaxPagesBound == 4
MaxDepthBound == 2
NumUrls == 4
MaxTextLen == 4
MaxChunkSize == 3
MaxOverlap == 2
MaxFrames == 2
MaxMetas == 3
MaxNameLen == 3
MaxUrlLen == 4
MaxElems == 2

----------------------------------------------------------------------------
(* utils.py *)

\* s ends with suffix (str.endswith)
EndsWith(s, suffix) ==
    /\ Len(suffix) <= Len(s)
    /\ SubSeq(s, Len(s) - Len(suffix) + 1, Len(s)) = suffix

\* config.BASE_DOMAIN ("khalti.com"), abbreviated k.c
BASE_DOMAIN == <<"k", ".", "c">>

\* The canonical urls of the modelled site; their order is string order.
\* 1 is the seed (on a subdomain of the base domain), 2 is on the base domain,
\* 3 is on another registrable domain whose name ends with the base domain's
\* characters ("xk.c"), every other url is on a foreign host.
Urls == 1..NumUrls

START_URL == 1

\* urlparse(url).netloc
netloc(url) ==
    CASE url = 1        -> <<"s", ".", "k", ".", "c">>
      [] url = 2        -> <<"k", ".", "c">>
      [] url = 3        -> <<"x", "k", ".", "c">>
      [] OTHER          -> <<"o", ".", "r">>

is_internal(url, base_domain) == EndsWith(netloc(url), base_domain)

----------------------------------------------------------------------------
(* crawler.py *)

\* sorted(links): the ascending list of a set of urls
RECURSIVE SortedSeq(_)
SortedSeq(S) ==
    IF S = {} THEN <<>>
    ELSE LET m == CHOOSE x \in S : \A y \in S : x <= y
         IN  <<m>> \o SortedSeq(S \ {m})

Range(s) == {s[i] : i \in 1..Len(s)}

\* mutant: the budget test is off by one
LoopGuardOffByOne == queue # <<>> /\ Cardinality(visited) <= maxPages

\* mutant: the page budget is not part of the loop condition
LoopGuardQueueOnly == queue # <<>>

\* while queue and len(visited) < MAX_PAGES
LoopGuard == queue # <<>> /\ Cardinality(visited) < maxPages

\* mutant: only the urls that have a page record are skipped
AlreadyVisitedIfRecorded(url) == url \in DOMAIN data

\* if url in visited: continue
AlreadyVisited(url) == url \in visited

\* mutant: pages at the maximum depth are expanded too
ShouldExpandInclusive(depth) == depth <= maxDepth

\* if depth < MAX_DEPTH
ShouldExpand(depth) == depth < maxDepth

\* visited.add(url)
MarkVisited(url) == visited \cup {url}

\* mutant: the links are put at the front of the frontier (a stack)
RECURSIVE EnqueueFront(_, _, _)
EnqueueFront(q, links, depth) ==
    IF links = <<>> THEN q
    ELSE LET link == Head(links)
             q2 == IF is_internal(link, BASE_DOMAIN) /\ link \notin visited
                   THEN <<<<link, depth + 1>>>> \o q
                   ELSE q
         IN  EnqueueFront(q2, Tail(links), depth)

\* for link in links: if is_internal(link, base_domain) and link not in visited:
\*     queue.append((link, depth + 1))
RECURSIVE Enqueue(_, _, _)
Enqueue(q, links, depth) ==
    IF links = <<>> THEN q
    ELSE LET link == Head(links)
             q2 == IF is_internal(link, BASE_DOMAIN) /\ link \notin visited
                   THEN Append(q, <<link, depth + 1>>)
                   ELSE q
         IN  Enqueue(q2, Tail(links), depth)

CrawlInit ==
    /\ maxPages \in 1..MaxPagesBound
    /\ maxDepth \in 0..MaxDepthBound
    /\ pc = "launch"
    /\ queue = << <<START_URL, 0>> >>
    /\ visited = {}
    /\ data = <<>>
    /\ cur = <<0, 0>>
    /\ fetched = <<>>
    /\ delays = 0

\* browser = await p.chromium.launch(); page = await browser.new_page()
Launch ==
    /\ pc = "launch"
    /\ pc' = "loop"
    /\ UNCHANGED <<notCrawl, maxPages, maxDepth, queue, visited, data, cur, fetched, delays>>

\* the launch raises: except Exception -> return data
LaunchFail ==
    /\ pc = "launch"
    /\ pc' = "done"
    /\ UNCHANGED <<notCrawl, maxPages, maxDepth, queue, visited, data, cur, fetched, delays>>

\* url, depth = queue.pop(0); if url in visited: continue
PopDuplicate ==
    /\ pc = "loop"
    /\ LoopGuard
    /\ AlreadyVisited(Head(queue)[1])
    /\ queue' = Tail(queue)
    /\ cur' = Head(queue)
    /\ UNCHANGED <<notCrawl, maxPages, maxDepth, pc, visited, data, fetched, delays>>

\* url, depth = queue.pop(0); visited.add(url)
PopVisit ==
    /\ pc = "loop"
    /\ LoopGuard
    /\ ~AlreadyVisited(Head(queue)[1])
    /\ queue' = Tail(queue)
    /\ cur' = Head(queue)
    /\ visited' = MarkVisited(Head(queue)[1])
    /\ pc' = "fetch"
    /\ UNCHANGED <<notCrawl, maxPages, maxDepth, data, fetched, delays>>

\* page.goto, extract_text_and_links, data[url] = ..., enqueue the links
FetchOk ==
    /\ pc = "fetch"
    /\ \E all_links \in SUBSET Urls :
         LET links == SortedSeq(all_links)
         IN  /\ data' = [u \in DOMAIN data \cup {cur[1]} |->
                            IF u = cur[1] THEN [links |-> links] ELSE data[u]]
             /\ queue' = IF ShouldExpand(cur[2])
                         THEN Enqueue(queue, links, cur[2])
                         ELSE queue
    /\ fetched' = Append(fetched, cur)
    /\ pc' = "sleep"
    /\ UNCHANGED <<notCrawl, maxPages, maxDepth, visited, cur, delays>>

\* mutant: a page error goes straight to the next frontier entry
FetchFailNoDelay ==
    /\ pc = "fetch"
    /\ fetched' = Append(fetched, cur)
    /\ pc' = "loop"
    /\ UNCHANGED <<notCrawl, maxPages, maxDepth, queue, visited, data, cur, delays>>

\* mutant: a page error ends the crawl
FetchFailAborts ==
    /\ pc = "fetch"
    /\ fetched' = Append(fetched, cur)
    /\ pc' = "done"
    /\ UNCHANGED <<notCrawl, maxPages, maxDepth, queue, visited, data, cur, delays>>

\* page.goto or the extraction raises: except Exception -> print
FetchFail ==
    /\ pc = "fetch"
    /\ fetched' = Append(fetched, cur)
    /\ pc' = "sleep"
    /\ UNCHANGED <<notCrawl, maxPages, maxDepth, queue, visited, data, cur, delays>>

\* await asyncio.sleep(DELAY)
Sleep ==
    /\ pc = "sleep"
    /\ delays' = delays + 1
    /\ pc' = "loop"
    /\ UNCHANGED <<notCrawl, maxPages, maxDepth, queue, visited, data, cur, fetched>>

\* the while condition is false: browser.close(); return data
LoopExit ==
    /\ pc = "loop"
    /\ ~LoopGuard
    /\ pc' = "done"
    /\ UNCHANGED <<notCrawl, maxPages, maxDepth, queue, visited, data, cur, fetched, delays>>

CrawlNext ==
    \/ Launch
    \/ LaunchFail
    \/ PopDuplicate
    \/ PopVisit
    \/ FetchOk
    \/ FetchFail
    \/ Sleep
    \/ LoopExit

----------------------------------------------------------------------------
(* chunker.py *)

Chars == {"a", ".", " ", "\n"}

Whitespace == {" ", "\n"}

Texts == UNION {[1..n -> Chars] : n \in 0..MaxTextLen}

Min(a, b) == IF a < b THEN a ELSE b

\* text[a:b] for 0 <= a, b <= len(text)
Slice(s, a, b) == SubSeq(s, a + 1, b)

\* text.rfind(sub, lo, hi): the highest 0-based index i with lo <= i,
\* i + len(sub) <= hi and text[i:i+len(sub)] == sub, or -1
RFind(s, sub, lo, hi) ==
    LET hits == {i \in lo..(hi - Len(sub)) : Slice(s, i, i + Len(sub)) = sub}
    IN  IF hits = {} THEN -1 ELSE CHOOSE i \in hits : \A j \in hits : j <= i

\* str.strip()
RECURSIVE LStrip(_)
LStrip(s) == IF s # <<>> /\ Head(s) \in Whitespace THEN LStrip(Tail(s)) ELSE s

RECURSIVE RStrip(_)
RStrip(s) ==
    IF s # <<>> /\ s[Len(s)] \in Whitespace
    THEN RStrip(SubSeq(s, 1, Len(s) - 1))
    ELSE s

Strip(s) == RStrip(LStrip(s))

\* mutant: the boundaries are looked for from the beginning of the text
CutEndSearchFromZero(s, st, size) ==
    LET end0 == Min(st + size, Len(s))
    IN  IF end0 < Len(s)
        THEN LET last_newline == RFind(s, <<"\n">>, 0, end0)
                 last_period  == RFind(s, <<".", " ">>, 0, end0)
             IN  IF last_newline # -1 THEN last_newline + 1
                 ELSE IF last_period # -1 THEN last_period + 1
                 ELSE end0
        ELSE end0

\* mutant: the boundary search also runs on the last window
CutEndAlwaysSearch(s, st, size) ==
    LET end0 == Min(st + size, Len(s))
        last_newline == RFind(s, <<"\n">>, st, end0)
        last_period  == RFind(s, <<".", " ">>, st, end0)
    IN  IF last_newline # -1 THEN last_newline + 1
        ELSE IF last_period # -1 THEN last_period + 1
        ELSE end0

\* end = min(start + chunk_size, text_len), moved back to just after the last
\* newline of the window, else just after the last ". " period, when the
\* window does not reach the end of the text
CutEnd(s, st, size) ==
    LET end0 == Min(st + size, Len(s))
    IN  IF end0 < Len(s)
        THEN LET last_newline == RFind(s, <<"\n">>, st, end0)
                 last_period  == RFind(s, <<".", " ">>, st, end0)
             IN  IF last_newline # -1 THEN last_newline + 1
                 ELSE IF last_period # -1 THEN last_period + 1
                 ELSE end0
        ELSE end0

\* mutant: the next chunk starts where the previous one ends
NextStartNoOverlap(st, end, ov) == end

\* mutant: the stagnation test misses next_start == start
NextStartStrict(st, end, ov) ==
    IF end - ov < st THEN end ELSE end - ov

\* mutant: the forced forward movement skips one character
NextStartSkip(st, end, ov) ==
    IF end - ov <= st THEN end + 1 ELSE end - ov

\* next_start = end - overlap; if next_start <= start: next_start = end
NextStart(st, end, ov) ==
    IF end - ov <= st THEN end ELSE end - ov

\* chunk = text[start:end].strip(); if chunk: chunks.append(chunk)
Emit(cs, chunk) == IF chunk # <<>> THEN Append(cs, chunk) ELSE cs

\* No run of the loop needs more iterations than this (start grows by at
\* least one per iteration); the cap only keeps a stalled loop finite.
MaxIters == MaxTextLen + 2

ChunkInit ==
    /\ text \in Texts
    /\ chunk_size \in 1..MaxChunkSize
    /\ overlap \in 0..MaxOverlap
    /\ start = 0
    /\ chunks = <<>>
    /\ slices = <<>>
    /\ cpc = "loop"

\* one iteration of `while start < text_len`
ChunkIter ==
    /\ cpc = "loop"
    /\ start < Len(text)
    /\ Len(slices) < MaxIters
    /\ LET end == CutEnd(text, start, chunk_size)
       IN  /\ chunks' = Emit(chunks, Strip(Slice(text, start, end)))
           /\ slices' = Append(slices, <<start, end, Strip(Slice(text, start, end))>>)
           /\ IF end = Len(text)
              THEN cpc' = "done" /\ start' = start
              ELSE cpc' = "loop" /\ start' = NextStart(start, end, overlap)
    /\ UNCHANGED <<notChunk, text, chunk_size, overlap>>

\* the while condition is false: return chunks
ChunkExit ==
    /\ cpc = "loop"
    /\ ~(start < Len(text))
    /\ cpc' = "done"
    /\ UNCHANGED <<notChunk, text, chunk_size, overlap, start, chunks, slices>>

ChunkNext == ChunkIter \/ ChunkExit

----------------------------------------------------------------------------
(* chat.py *)
(* A string is a sequence of tokens (substrings that the code never splits). *)
(* "data: " is the token for the six characters of the SSE frame prefix.     *)

Providers == {"ollama", "vllm"}

\* The source values of retrieved metadata, in string order: 1 is "a", 2 is
\* "b"; 0 stands for a metadata entry without a "source" key.
NoSource == 0
SourceIds == {1, 2}
SourceName(i) == IF i = 1 THEN "a" ELSE IF i = 2 THEN "b" ELSE "c"

\* results of vector_store.search: one document per metadata entry
Retrievals ==
    UNION {[1..n -> SourceIds \cup {NoSource}] : n \in 0..MaxMetas}

\* the content strings a backend sends in one frame
Contents == {<<>>, <<"Hel">>, <<"data: ", "lo">>}

\* The lines of a streamed response. prefix: what precedes the payload;
\* body: "chunk" a chat-completions chunk object, "object" a local-model
\* object, "[DONE]" the literal sentinel, "error" a JSON object without the
\* expected keys, "bad" text that is not JSON, "blank" an empty line;
\* has: the object carries the content key; done: its done flag.
Frame(prefix, body, has, content, done) ==
    [prefix |-> prefix, body |-> body, has |-> has, content |-> content,
     done |-> done]

VllmContentFrames == {Frame("data: ", "chunk", TRUE, c, FALSE) : c \in Contents}
VllmRoleFrame == Frame("data: ", "chunk", FALSE, <<>>, FALSE)
VllmDoneFrame == Frame("data: ", "[DONE]", FALSE, <<>>, FALSE)
OllamaContentFrames == {Frame("", "object", TRUE, c, FALSE) : c \in Contents}
OllamaSseFrame == Frame("data: ", "object", TRUE, <<"data: ", "lo">>, FALSE)
OllamaDoneFrame == Frame("", "object", TRUE, <<>>, TRUE)
BadFrame == Frame("", "bad", FALSE, <<>>, FALSE)
ErrorBodyFrame == Frame("", "error", FALSE, <<>>, FALSE)
BlankFrame == Frame("", "blank", FALSE, <<>>, FALSE)

FramesOf(p) ==
    IF p = "vllm"
    THEN VllmContentFrames \cup
         {VllmRoleFrame, VllmDoneFrame, BadFrame, ErrorBodyFrame, BlankFrame}
    ELSE OllamaContentFrames \cup
         {OllamaSseFrame, OllamaDoneFrame, BadFrame, ErrorBodyFrame, BlankFrame}

\* the document stored with a retrieved entry: a chunk, never empty
Document(src) == <<"chunk">>

\* "\n\n".join(results["documents"][0])
RECURSIVE JoinDocuments(_)
JoinDocuments(res) ==
    IF res = <<>> THEN <<>>
    ELSE IF Len(res) = 1 THEN Document(res[1])
    ELSE Document(res[1]) \o <<"\n\n">> \o JoinDocuments(Tail(res))

\* mutant: the joined documents are used as they are
build_context_no_fallback(res) == JoinDocuments(res)

\* context_text = join of the documents; if not context_text: the fallback
build_context(res) ==
    LET joined == JoinDocuments(res)
    IN  IF joined = <<>> THEN <<"No context available.">> ELSE joined

\* mutant: the sources in the order of the metadata
get_sources_in_order(res) ==
    SelectSeq(res, LAMBDA src : src # NoSource)

\* _get_sources: sorted(set of the "source" values)
get_sources(res) ==
    SortedSeq({res[i] : i \in 1..Len(res)} \ {NoSource})

\* "\n".join(f"- {s}" for s in sources)
RECURSIVE Bullets(_)
Bullets(srcs) ==
    IF srcs = <<>> THEN <<>>
    ELSE IF Len(srcs) = 1 THEN <<"- ", SourceName(srcs[1])>>
    ELSE <<"- ", SourceName(srcs[1]), "\n">> \o Bullets(Tail(srcs))

\* "\n\n**Sources:**\n" + "\n".join(...)
Citation(srcs) == <<"\n\n**Sources:**\n">> \o Bullets(srcs)

\* query: f"Error communicating with {provider_label}: {str(e)}"
QueryError(p) ==
    <<"Error communicating with ", IF p = "ollama" THEN "Ollama" ELSE "vLLM",
      ": ", "<e>">>

\* query_stream: f"\nError communicating with {self.llm_provider}: {str(e)}"
StreamError(p) == <<"\nError communicating with ", p, ": ", "<e>">>

\* str.replace("data: ", "") on a decoded line
ReplaceDataPrefix(line) ==
    [line EXCEPT !.prefix = IF @ = "data: " THEN "" ELSE @,
                 !.content = SelectSeq(@, LAMBDA t : t # "data: ")]

\* json.loads(decoded) succeeds
JsonLoads(decoded) ==
    decoded.prefix = "" /\ decoded.body \in {"chunk", "object", "error"}

\* _stream_vllm, one line of r.iter_lines(): what the generator does with it
stream_vllm_line(line) ==
    IF line.body = "blank" THEN [act |-> "skip"]
    ELSE LET decoded == ReplaceDataPrefix(line)
         IN  IF decoded.prefix = "" /\ decoded.body = "[DONE]"
             THEN [act |-> "break"]
             ELSE IF ~JsonLoads(decoded) THEN [act |-> "raise"]
             ELSE IF decoded.body # "chunk" THEN [act |-> "raise"]
             ELSE IF decoded.has
                  THEN [act |-> "yield", text |-> decoded.content]
                  ELSE [act |-> "skip"]

\* _stream_ollama, one line of r.iter_lines()
stream_ollama_line(line) ==
    IF line.body = "blank" THEN [act |-> "skip"]
    ELSE LET decoded == IF line.prefix \in {"data: ", "data:"}
                        THEN ReplaceDataPrefix(line)
                        ELSE line
         IN  IF ~JsonLoads(decoded) THEN [act |-> "skip"]
             ELSE IF decoded.body = "object" /\ decoded.done
                  THEN [act |-> "break"]
             ELSE IF decoded.body = "object" /\ decoded.has
                     /\ decoded.content # <<>>
                  THEN [act |-> "yield", text |-> decoded.content]
                  ELSE [act |-> "skip"]

StreamLineOf(p, line) ==
    IF p = "ollama" THEN stream_ollama_line(line) ELSE stream_vllm_line(line)

\* The bodies of a blocking response: "message" a chat completion,
\* "object" a local-model object, "error" a JSON object without the expected
\* keys, "bad" a body that is not JSON.
Bodies ==
    {[body |-> b, content |-> c] : b \in {"message", "object"}, c \in Contents}
    \cup {[body |-> "error", content |-> <<>>], [body |-> "bad", content |-> <<>>]}

\* _query_vllm / _query_ollama after a 2xx response: the text, or a raise
query_backend(p, resp) ==
    IF resp.body = "bad" THEN [act |-> "raise"]
    ELSE IF p = "vllm"
         THEN IF resp.body = "message"
              THEN [act |-> "return", text |-> resp.content]
              ELSE [act |-> "raise"]
         ELSE IF resp.body = "object"
              THEN [act |-> "return", text |-> resp.content]
              ELSE [act |-> "return", text |-> <<>>]

ChatInit ==
    /\ provider \in Providers
    /\ mode \in {"query", "stream"}
    /\ results = <<>>
    /\ context_text = <<>>
    /\ status = "none"
    /\ fault = "none"
    /\ frames = <<>>
    /\ out = <<>>
    /\ qpc = "retrieve"

\* results = self.vector_store.search(...); context_text is built from it
Retrieve ==
    /\ qpc = "retrieve"
    /\ results' \in Retrievals
    /\ context_text' = build_context(results')
    /\ qpc' = "generate"
    /\ UNCHANGED <<notChat, provider, mode, status, fault, frames, out>>

\* vector_store.search raises: nothing catches it
RetrieveRaise ==
    /\ qpc = "retrieve"
    /\ qpc' = "raised"
    /\ UNCHANGED <<notChat, provider, mode, results, context_text, status, fault, frames, out>>

\* query: the blocking call, the citation block, the except clause
Query ==
    /\ qpc = "generate"
    /\ mode = "query"
    /\ \/ /\ fault' \in {"connect", "timeout"}
          /\ status' = "none"
          /\ out' = <<QueryError(provider)>>
       \/ /\ fault' = "none"
          /\ status' = "non2xx"
          /\ out' = <<QueryError(provider)>>
       \/ /\ fault' = "none"
          /\ status' = "2xx"
          /\ \E resp \in Bodies :
               LET r == query_backend(provider, resp)
                   sources == get_sources(results)
               IN  out' = IF r.act = "raise" THEN <<QueryError(provider)>>
                          ELSE IF sources # <<>>
                          THEN <<r.text \o Citation(sources)>>
                          ELSE <<r.text>>
    /\ qpc' = "done"
    /\ UNCHANGED <<notChat, provider, mode, results, context_text, frames>>

\* query_stream: requests.post(..., stream=True) returns a response
StreamOpen ==
    /\ qpc = "generate"
    /\ mode = "stream"
    /\ status' \in {"2xx", "non2xx"}
    /\ qpc' = "stream"
    /\ UNCHANGED <<notChat, provider, mode, results, context_text, fault, frames, out>>

\* requests.post or r.iter_lines() raises: except Exception -> error fragment
StreamFault ==
    /\ qpc \in {"generate", "stream"}
    /\ mode = "stream"
    /\ fault' \in {"connect", "timeout"}
    /\ (qpc = "stream" => fault' = "timeout")
    /\ out' = Append(out, StreamError(provider))
    /\ qpc' = "done"
    /\ UNCHANGED <<notChat, provider, mode, results, context_text, status, frames>>

\* one line of r.iter_lines() goes through _stream_ollama or _stream_vllm
StreamLine ==
    /\ qpc = "stream"
    /\ Len(frames) < MaxFrames
    /\ \E line \in FramesOf(provider) :
         LET r == StreamLineOf(provider, line)
         IN  /\ frames' = Append(frames, line)
             /\ out' = CASE r.act = "yield" -> Append(out, r.text)
                         [] r.act = "raise" -> Append(out, StreamError(provider))
                         [] OTHER           -> out
             /\ qpc' = CASE r.act = "break" -> "attribute"
                         [] r.act = "raise" -> "done"
                         [] OTHER           -> "stream"
    /\ UNCHANGED <<notChat, provider, mode, results, context_text, status, fault>>

\* r.iter_lines() is exhausted: the backend closed the response
StreamEnd ==
    /\ qpc = "stream"
    /\ qpc' = "attribute"
    /\ UNCHANGED <<notChat, provider, mode, results, context_text, status, fault, frames, out>>

\* sources = self._get_sources(results); if sources: yield the citation
Attribute ==
    /\ qpc = "attribute"
    /\ LET sources == get_sources(results)
       IN  out' = IF sources # <<>> THEN Append(out, Citation(sources)) ELSE out
    /\ qpc' = "done"
    /\ UNCHANGED <<notChat, provider, mode, results, context_text, status, fault, frames>>

ChatNext ==
    \/ Retrieve
    \/ RetrieveRaise
    \/ Query
    \/ StreamOpen
    \/ StreamFault
    \/ StreamLine
    \/ StreamEnd
    \/ Attribute

----------------------------------------------------------------------------
(* chat.py: ChatEngine.__init__ *)
(* A model name is a sequence of tokens; no token contains a quantization  *)
(* tag unless it is that tag, and no tag straddles two tokens.             *)

NameTokens ==
    {"llama3", "LLAMA3", ":latest", "llama3:8b-instruct-", "q4", "Q4", "q8",
     "_K_M"}

ModelNames == UNION {[1..n -> NameTokens] : n \in 0..MaxNameLen}

\* os.environ.get("OLLAMA_MODEL", "llama3:8b-instruct-q4_K_M"): unset, set to
\* the unquantized model, set to the empty string
BUILTIN_OLLAMA_MODEL == <<"llama3:8b-instruct-", "q4", "_K_M">>
EnvModels == {BUILTIN_OLLAMA_MODEL, <<"llama3", ":latest">>, <<>>}

ProviderArgs == {"", "OLLAMA", "vllm", "tpu"}
EnvProviders == {"ollama", "vllm"}

\* str.lower on a token
LowerToken(t) ==
    CASE t = "LLAMA3" -> "llama3"
      [] t = "Q4"     -> "q4"
      [] t = "_K_M"   -> "_k_m"
      [] t = "OLLAMA" -> "ollama"
      [] OTHER        -> t

\* str.lower
Lower(name) == [i \in 1..Len(name) |-> LowerToken(name[i])]

disallowed ==
    {<<"llama3", ":latest">>, <<"llama3">>, <<"llama-3">>,
     <<"llama-3", ":latest">>}

allowed_tags == {"q4", "q5", "q6", "q8"}

\* any(tag in model_name for tag in allowed_tags)
HasTag(name) == \E i \in 1..Len(name) : name[i] \in allowed_tags

\* mutant: the tags are looked for in the lowered name
validate_ollama_model_any_case(model_name) ==
    IF model_name = <<>> THEN [act |-> "raise", error |-> "required"]
    ELSE IF Lower(model_name) \in disallowed
    THEN [act |-> "raise", error |-> "unquantized"]
    ELSE IF ~HasTag(Lower(model_name))
    THEN [act |-> "raise", error |-> "appears unquantized"]
    ELSE [act |-> "return", value |-> model_name]

\* _validate_ollama_model
validate_ollama_model(model_name) ==
    IF model_name = <<>> THEN [act |-> "raise", error |-> "required"]
    ELSE IF Lower(model_name) \in disallowed
    THEN [act |-> "raise", error |-> "unquantized"]
    ELSE IF ~HasTag(model_name)
    THEN [act |-> "raise", error |-> "appears unquantized"]
    ELSE [act |-> "return", value |-> model_name]

ConstructInit ==
    /\ argProvider \in ProviderArgs
    /\ argModel \in ModelNames
    /\ envProvider \in EnvProviders
    /\ envModel \in EnvModels
    /\ llm_provider = ""
    /\ ollama_model = <<>>
    /\ cerr = "none"
    /\ kpc = "provider"

\* self.llm_provider = (llm_provider or DEFAULT_LLM_PROVIDER).lower()
SetProvider ==
    /\ kpc = "provider"
    /\ llm_provider' =
          LowerToken(IF argProvider # "" THEN argProvider ELSE envProvider)
    /\ kpc' = "model"
    /\ UNCHANGED <<notConstruct, argProvider, argModel, envProvider, envModel,
                   ollama_model, cerr>>

\* self.ollama_model =
\*     self._validate_ollama_model(ollama_model or DEFAULT_OLLAMA_MODEL)
ValidateModel ==
    /\ kpc = "model"
    /\ LET r == validate_ollama_model(
                   IF argModel # <<>> THEN argModel ELSE envModel)
       IN  IF r.act = "raise"
           THEN /\ cerr' = r.error
                /\ kpc' = "raised"
                /\ UNCHANGED ollama_model
           ELSE /\ ollama_model' = r.value
                /\ kpc' = "check"
                /\ UNCHANGED cerr
    /\ UNCHANGED <<notConstruct, argProvider, argModel, envProvider, envModel,
                   llm_provider>>

\* if self.llm_provider not in ["ollama", "vllm"]: raise ValueError
CheckProvider ==
    /\ kpc = "check"
    /\ IF llm_provider \notin {"ollama", "vllm"}
       THEN cerr' = "unsupported" /\ kpc' = "raised"
       ELSE cerr' = cerr /\ kpc' = "ready"
    /\ UNCHANGED <<notConstruct, argProvider, argModel, envProvider, envModel,
                   llm_provider, ollama_model>>

ConstructNext == SetProvider \/ ValidateModel \/ CheckProvider

----------------------------------------------------------------------------
(* utils.py: normalize_url *)
(* A url is a sequence of one-character strings.                           *)

UrlChars == {"a", "/", "#"}

UrlStrings == UNION {[1..n -> UrlChars] : n \in 0..MaxUrlLen}

\* url.split("#")[0]: what precedes the first '#'
RECURSIVE BeforeHash(_)
BeforeHash(u) ==
    IF u = <<>> \/ Head(u) = "#" THEN <<>>
    ELSE <<Head(u)>> \o BeforeHash(Tail(u))

\* s.rstrip("/"): every trailing '/' is removed
RECURSIVE RStripSlash(_)
RStripSlash(u) ==
    IF u # <<>> /\ u[Len(u)] = "/" THEN RStripSlash(SubSeq(u, 1, Len(u) - 1))
    ELSE u

\* mutant: the slashes are stripped before the fragment is cut
normalize_url_slash_first(u) == BeforeHash(RStripSlash(u))

\* mutant: one trailing '/' is removed
normalize_url_strip_one(u) ==
    LET prefix == BeforeHash(u)
    IN  IF prefix # <<>> /\ prefix[Len(prefix)] = "/"
        THEN SubSeq(prefix, 1, Len(prefix) - 1)
        ELSE prefix

\* return url.split("#")[0].rstrip("/")
normalize_url(u) == RStripSlash(BeforeHash(u))

NormInit ==
    /\ raw_url \in UrlStrings
    /\ normalized = <<>>
    /\ renormalized = <<>>
    /\ npc = 0

\* normalize_url(url)
Normalize ==
    /\ npc = 0
    /\ normalized' = normalize_url(raw_url)
    /\ npc' = 1
    /\ UNCHANGED <<notNorm, raw_url, renormalized>>

\* normalize_url applied to its own result
NormalizeAgain ==
    /\ npc = 1
    /\ renormalized' = normalize_url(normalized)
    /\ npc' = 2
    /\ UNCHANGED <<notNorm, raw_url, normalized>>

NormNext == Normalize \/ NormalizeAgain

----------------------------------------------------------------------------
(* extractor.py: extract_text_and_links *)
(* The page is the sequence of its elements that carry a link, each with   *)
(* the region of the document it lies in. In an attribute value "tick" is  *)
(* the backtick character and "quote" the single quote.                    *)

\* "noise": inside script/style/noscript; "nav": inside nav/footer/header;
\* "theme": inside a finaxio-builder-header/footer element; "role": inside
\* an element with role navigation/banner/contentinfo; "body": elsewhere
Regions == {"noise", "nav", "theme", "role", "body"}

AnchorHrefs ==
    {<<"mailto:", "x">>, <<"/", "a">>, <<"/", "a", "/">>,
     <<" ", "tick", "/", "b", "#", "f", "tick">>}

OnclickValues == {<<"location.href=", "quote", "/", "a", "quote">>, <<"doIt()">>}

DataHrefs == {<<"/", "b">>, <<"mailto:", "x">>}

Elements ==
    [region : Regions, kind : {"a"}, value : AnchorHrefs]
    \cup [region : Regions, kind : {"onclick"}, value : OnclickValues]
    \cup [region : Regions, kind : {"data-href"}, value : DataHrefs]

Pages == UNION {[1..n -> Elements] : n \in 0..MaxElems}

\* the page being crawled, at the root of its site
CURRENT_URL == <<"https://s.k.c">>

\* the code point of the first character of a token
Ord(c) ==
    CASE c = " " -> 32
      [] c = "#" -> 35
      [] c = "quote" -> 39
      [] c = "/" -> 47
      [] c = "tick" -> 96
      [] c = "a" -> 97
      [] c = "b" -> 98
      [] c = "f" -> 102
      [] c = "https://s.k.c" -> 104
      [] c = "mailto:" -> 109
      [] OTHER -> 120

\* s < t for Python strings
RECURSIVE StrLess(_, _)
StrLess(s, t) ==
    IF t = <<>> THEN FALSE
    ELSE IF s = <<>> THEN TRUE
    ELSE IF Head(s) = Head(t) THEN StrLess(Tail(s), Tail(t))
    ELSE Ord(Head(s)) < Ord(Head(t))

\* sorted(list(links))
RECURSIVE sorted(_)
sorted(S) ==
    IF S = {} THEN <<>>
    ELSE LET m == CHOOSE m \in S : \A x \in S \ {m} : StrLess(m, x)
         IN  <<m>> \o sorted(S \ {m})

\* s.strip of the backtick
RECURSIVE StripTicks(_)
StripTicks(s) ==
    IF s # <<>> /\ Head(s) = "tick" THEN StripTicks(Tail(s))
    ELSE IF s # <<>> /\ s[Len(s)] = "tick"
    THEN StripTicks(SubSeq(s, 1, Len(s) - 1))
    ELSE s

\* a["href"].strip(), .strip of the backtick, .strip()
clean_href(href) == Strip(StripTicks(Strip(href)))

\* href.startswith(("mailto:", "tel:", "javascript:"))
IsSchemeLink(href) ==
    href # <<>> /\ Head(href) \in {"mailto:", "tel:", "javascript:"}

\* urljoin(current_url, ref) for a page at the root of its site
urljoin(base, ref) ==
    IF ref = <<>> THEN base
    ELSE IF Head(ref) \in {"mailto:", "tel:", "javascript:"} THEN ref
    ELSE IF Head(ref) = "/" THEN base \o ref
    ELSE base \o <<"/">> \o ref

\* re.search: location.href or window.location, "=", a quoted group
onclick_match(v) ==
    IF Len(v) >= 3 /\ v[1] = "location.href=" /\ v[2] = "quote" /\ v[Len(v)] = "quote"
    THEN [found |-> TRUE, group |-> SubSeq(v, 3, Len(v) - 1)]
    ELSE [found |-> FALSE, group |-> <<>>]

\* the links of the anchors of a tree
anchor_links(tree) ==
    {normalize_url(urljoin(CURRENT_URL, clean_href(tree[i].value))) :
        i \in {j \in 1..Len(tree) :
                 /\ tree[j].kind = "a"
                 /\ ~IsSchemeLink(clean_href(tree[j].value))}}

\* _extract_links_from_soup: anchors, onclick handlers, data-href / data-url
extract_links_from_soup(tree) ==
    anchor_links(tree)
    \cup {normalize_url(urljoin(CURRENT_URL, onclick_match(tree[i].value).group)) :
            i \in {j \in 1..Len(tree) :
                     /\ tree[j].kind = "onclick"
                     /\ onclick_match(tree[j].value).found}}
    \cup {normalize_url(urljoin(CURRENT_URL, tree[i].value)) :
            i \in {j \in 1..Len(tree) : tree[j].kind = "data-href"}}

\* tag.decompose() for every element of the given regions
decompose(tree, regions) ==
    SelectSeq(tree, LAMBDA e : e.region \notin regions)

ExtractInit ==
    /\ html \in Pages
    /\ soup = html
    /\ allLinks = {}
    /\ contentLinks = {}
    /\ extracted = [content |-> <<>>, all |-> <<>>]
    /\ xpc = "noise"

\* for tag in soup(["script", "style", "noscript"]): tag.decompose()
RemoveNoise ==
    /\ xpc = "noise"
    /\ soup' = decompose(soup, {"noise"})
    /\ xpc' = "all_links"
    /\ UNCHANGED <<notExtract, html, allLinks, contentLinks, extracted>>

\* mutant: only the anchors are collected for the crawler
ExtractAllLinksAnchorsOnly ==
    /\ xpc = "all_links"
    /\ allLinks' = anchor_links(soup)
    /\ xpc' = "prune"
    /\ UNCHANGED <<notExtract, html, soup, contentLinks, extracted>>

\* all_links = set(); _extract_links_from_soup(soup, current_url, all_links)
ExtractAllLinks ==
    /\ xpc = "all_links"
    /\ allLinks' = extract_links_from_soup(soup)
    /\ xpc' = "prune"
    /\ UNCHANGED <<notExtract, html, soup, contentLinks, extracted>>

\* nav/footer/header, the theme's header and footer classes and the
\* navigation/banner/contentinfo roles are decomposed
Prune ==
    /\ xpc = "prune"
    /\ soup' = decompose(decompose(decompose(soup, {"nav"}), {"theme"}), {"role"})
    /\ xpc' = "content_links"
    /\ UNCHANGED <<notExtract, html, allLinks, contentLinks, extracted>>

\* content_links = set(); _extract_links_from_soup(...); return text,
\* sorted(list(content_links)), sorted(list(all_links))
ExtractContentLinks ==
    /\ xpc = "content_links"
    /\ contentLinks' = extract_links_from_soup(soup)
    /\ extracted' = [content |-> sorted(contentLinks'), all |-> sorted(allLinks)]
    /\ xpc' = "done"
    /\ UNCHANGED <<notExtract, html, soup, allLinks>>

ExtractNext == RemoveNoise \/ ExtractAllLinks \/ Prune \/ ExtractContentLinks

----------------------------------------------------------------------------
(* Specifications: one per component, the other components at rest *)

CrawlIdle ==
    /\ maxPages = 1 /\ maxDepth = 0 /\ pc = "idle" /\ queue = <<>>
    /\ visited = {} /\ data = <<>> /\ cur = <<0, 0>> /\ fetched = <<>>
    /\ delays = 0

ChunkIdle ==
    /\ text = <<>> /\ chunk_size = 1 /\ overlap = 0 /\ start = 0
    /\ chunks = <<>> /\ slices = <<>> /\ cpc = "idle"

ChatIdle ==
    /\ provider = "ollama" /\ mode = "query" /\ results = <<>>
    /\ context_text = <<>>
    /\ status = "none" /\ fault = "none" /\ frames = <<>> /\ out = <<>>
    /\ qpc = "idle"

ConstructIdle ==
    /\ argProvider = "" /\ argModel = <<>> /\ envProvider = "ollama"
    /\ envModel = <<>> /\ llm_provider = "" /\ ollama_model = <<>>
    /\ cerr = "none" /\ kpc = "idle"

NormIdle ==
    /\ raw_url = <<>> /\ normalized = <<>> /\ renormalized = <<>> /\ npc = 3

ExtractIdle ==
    /\ html = <<>> /\ soup = <<>> /\ allLinks = {} /\ contentLinks = {}
    /\ extracted = [content |-> <<>>, all |-> <<>>] /\ xpc = "idle"

\* the components added to the engine's pipeline are at rest
RestIdle == ConstructIdle /\ NormIdle /\ ExtractIdle

Init == CrawlInit /\ ChunkIdle /\ ChatIdle /\ RestIdle

Next == CrawlNext

Spec == Init /\ [][Next]_vars

\* crawl is one coroutine that nothing else schedules: it takes its next step
FairSpec == Spec /\ WF_vars(Next)

ChunkSpecInit == ChunkInit /\ CrawlIdle /\ ChatIdle /\ RestIdle

ChunkSpec == ChunkSpecInit /\ [][ChunkNext]_vars

\* chunk_text is a sequential loop: an enabled iteration is always taken
FairChunkSpec == ChunkSpec /\ WF_vars(ChunkNext)

ChatSpecInit == ChatInit /\ CrawlIdle /\ ChunkIdle /\ RestIdle

ChatSpec == ChatSpecInit /\ [][ChatNext]_vars

ConstructSpecInit ==
    /\ ConstructInit /\ CrawlIdle /\ ChunkIdle /\ ChatIdle
    /\ NormIdle /\ ExtractIdle

ConstructSpec == ConstructSpecInit /\ [][ConstructNext]_vars

NormSpecInit ==
    /\ NormInit /\ CrawlIdle /\ ChunkIdle /\ ChatIdle
    /\ ConstructIdle /\ ExtractIdle

NormSpec == NormSpecInit /\ [][NormNext]_vars

ExtractSpecInit ==
    /\ ExtractInit /\ CrawlIdle /\ ChunkIdle /\ ChatIdle
    /\ ConstructIdle /\ NormIdle

ExtractSpec == ExtractSpecInit /\ [][ExtractNext]_vars

----------------------------------------------------------------------------
(* Claims about crawler.crawl (specifications Spec and FairSpec) *)

\* C1: the visited set never holds more than maxPages urls and no more than
\* maxPages pages are ever fetched, whatever the links and the failures.
C1_VisitedWithinBudget ==
    /\ Cardinality(visited) <= maxPages
    /\ Len(fetched) <= maxPages
    /\ (pc = "fetch" => cur[1] \in visited)

\* the budget is exhausted while an unvisited url is still in the frontier,
\* after a fetch that failed
C1_Witness ==
    /\ pc = "done"
    /\ Cardinality(visited) = maxPages
    /\ \E i \in 1..Len(queue) : queue[i][1] \notin visited
    /\ Cardinality(DOMAIN data) < Len(fetched)

FetchedOnce ==
    \A i, j \in 1..Len(fetched) : fetched[i][1] = fetched[j][1] => i = j

RecordsKept ==
    \A u \in DOMAIN data : u \in DOMAIN data' /\ data'[u] = data[u]

\* C2: no url is fetched twice in one crawl, and a page record, once stored,
\* is never overwritten or removed.
C2_FetchedOnceRecordsKept == []FetchedOnce /\ [][RecordsKept]_vars

\* a duplicate frontier entry of a recorded page has just been skipped
C2_Witness ==
    /\ pc = "loop"
    /\ fetched # <<>>
    /\ cur # fetched[Len(fetched)]
    /\ cur[1] \in DOMAIN data
    /\ delays = Len(fetched)

DepthBounded ==
    /\ \A i \in 1..Len(queue) : queue[i][2] <= maxDepth
    /\ \A i \in 1..Len(fetched) : fetched[i][2] <= maxDepth

LeafNotExpanded ==
    (pc = "fetch" /\ cur[2] = maxDepth /\ pc' = "sleep") => queue' = queue

\* C3: every frontier entry and every fetched page has depth <= maxDepth, and
\* processing a page of depth maxDepth leaves the frontier unchanged.
C3_DepthBounded == []DepthBounded /\ [][LeafNotExpanded]_vars

\* a page at depth maxDepth > 0 is recorded with an internal, unvisited link
\* that is not in the frontier
C3_Witness ==
    /\ pc = "sleep"
    /\ maxDepth > 0
    /\ cur[2] = maxDepth
    /\ cur[1] \in DOMAIN data
    /\ \E l \in Range(data[cur[1]].links) :
         /\ is_internal(l, BASE_DOMAIN)
         /\ l \notin visited
         /\ \A i \in 1..Len(queue) : queue[i][1] # l

\* the host is the base domain or one of its subdomains
IsHostOrSubdomain(host, base) ==
    host = base \/ EndsWith(host, <<".">> \o base)

\* C17: is_internal holds of a link iff its host is the base domain or a
\* subdomain of it, so every url in the frontier is on such a host.
C17_InternalIffHostOrSubdomain ==
    /\ \A u \in DOMAIN data : \A i \in 1..Len(data[u].links) :
         is_internal(data[u].links[i], BASE_DOMAIN)
             <=> IsHostOrSubdomain(netloc(data[u].links[i]), BASE_DOMAIN)
    /\ \A i \in 1..Len(queue) :
         IsHostOrSubdomain(netloc(queue[i][1]), BASE_DOMAIN)

\* C19: the frontier is FIFO and pages are fetched breadth first: depths never
\* decrease along the frontier nor along the fetches, the frontier holds only
\* depths that are not below the page being processed, and no page is fetched
\* while a shallower entry of a url not yet visited is in the frontier.
C19_BreadthFirst ==
    /\ \A i, j \in 1..Len(queue) : i < j => queue[i][2] <= queue[j][2]
    /\ \A i, j \in 1..Len(fetched) : i < j => fetched[i][2] <= fetched[j][2]
    /\ pc \in {"fetch", "sleep"} =>
         \A i \in 1..Len(queue) :
            queue[i][1] \notin visited => cur[2] <= queue[i][2]

\* the second page of depth 1 is being fetched while the frontier already
\* holds an entry of depth 2
C19_Witness ==
    /\ pc = "fetch"
    /\ cur[2] = 1
    /\ Len(fetched) = 2
    /\ fetched[2][2] = 1
    /\ \E i \in 1..Len(queue) : queue[i][2] = 2

FetchedUrls == {fetched[i][1] : i \in 1..Len(fetched)}

\* a step in which the fetch of the current page failed
FailureStep == pc = "fetch" /\ fetched' # fetched /\ data' = data

FailureNotFatal ==
    /\ FailureStep =>
         /\ pc' = "sleep"
         /\ queue' = queue
         /\ visited' = visited
         /\ cur[1] \in visited'
         /\ cur[1] \notin DOMAIN data'
    /\ \A u \in FetchedUrls : u \notin DOMAIN data => u \notin DOMAIN data'

CrawlRanToBudget ==
    (pc = "done" /\ visited # {}) =>
        (queue = <<>> \/ Cardinality(visited) >= maxPages)

\* C20: a page failure leaves the url visited and without a record for good,
\* leaves the frontier as it is, and the crawl goes on until the frontier is
\* empty or the budget is used; the recorded pages are among the visited urls
\* and no url is fetched again.
C20_PageFailureNotFatal ==
    /\ [](DOMAIN data \subseteq visited /\ FetchedUrls \subseteq visited)
    /\ []FetchedOnce
    /\ []CrawlRanToBudget
    /\ [][FailureNotFatal]_vars

\* the crawl ended after a failed page and a page recorded after it
C20_Witness ==
    /\ pc = "done"
    /\ \E i, j \in 1..Len(fetched) :
         /\ i < j
         /\ fetched[i][1] \notin DOMAIN data
         /\ fetched[j][1] \in DOMAIN data

LoopEndsWhenDue ==
    (pc = "loop" /\ (queue = <<>> \/ Cardinality(visited) >= maxPages)) =>
        pc' = "done"

LaunchFailureEmpty ==
    (pc = "launch" /\ pc' = "done") =>
        data' = <<>> /\ visited' = {} /\ fetched' = <<>>

EndedWhenDue ==
    pc = "done" =>
        \/ queue = <<>>
        \/ Cardinality(visited) >= maxPages
        \/ (visited = {} /\ data = <<>> /\ fetched = <<>>)

\* C21: the crawl always terminates; its loop ends exactly when the frontier
\* is empty or the page budget is used, and a failed browser launch ends it
\* with an empty result and no page visited.
C21_CrawlTerminates ==
    /\ <>(pc = "done")
    /\ []EndedWhenDue
    /\ [][LoopEndsWhenDue /\ LaunchFailureEmpty]_vars

\* the crawl ended on its budget after a failed page, with links of the
\* seed still in the frontier
C21_Witness ==
    /\ pc = "done"
    /\ maxPages >= 2
    /\ Cardinality(visited) = maxPages
    /\ Len(fetched) = maxPages
    /\ queue # <<>>
    /\ fetched[2][1] \notin DOMAIN data

\* one delay for every page processed, the page being processed excepted
DelaysMatchFetches ==
    delays = IF pc = "sleep" THEN Len(fetched) - 1 ELSE Len(fetched)

DelayBetweenPages ==
    /\ fetched' # fetched => delays = Len(fetched)
    /\ Len(queue') < Len(queue) => (pc = "loop" /\ delays = Len(fetched))
    /\ (pc = "loop" /\ pc' = "loop") => delays' = delays
    /\ pc = "sleep" => (pc' = "loop" /\ delays' = delays + 1)

\* C22: the delay is taken once after every processed page, failed or not, and
\* before the next frontier entry is popped: exactly one delay lies between
\* two fetches, and skipping a duplicate entry takes none.
C22_DelayAfterEveryPage ==
    []DelaysMatchFetches /\ [][DelayBetweenPages]_vars

\* a third page is being fetched after a recorded page and a failed one, two
\* delays taken
C22_Witness ==
    /\ pc = "fetch"
    /\ Len(fetched) = 2
    /\ delays = 2
    /\ fetched[1][1] \in DOMAIN data
    /\ fetched[2][1] \notin DOMAIN data

----------------------------------------------------------------------------
(* Claims about chunker.chunk_text (specifications ChunkSpec, FairChunkSpec) *)

StartIncreases == (cpc = "loop" /\ cpc' = "loop") => start' > start

\* C4: for every chunk_size >= 1 and overlap >= 0 (overlap >= chunk_size
\* included) the loop ends, and start grows on every iteration that continues.
C4_Terminates == <>(cpc = "done") /\ [][StartIncreases]_vars

\* a run with overlap >= chunk_size that needed three iterations
C4_Witness ==
    /\ cpc = "done"
    /\ overlap >= chunk_size
    /\ Len(slices) >= 3

NoWS(s) == SelectSeq(s, LAMBDA c : c \notin Whitespace)

Suffix(s, n) == SubSeq(s, Len(s) - n + 1, Len(s))

PrevEnd(i) == IF i = 1 THEN 0 ELSE slices[i - 1][2]

\* what iterations 1..i add, each chunk cut down to the part of it that lies
\* beyond the end of the previous slice, whitespace left out
RECURSIVE Rebuilt(_)
Rebuilt(i) ==
    IF i = 0 THEN <<>>
    ELSE Rebuilt(i - 1) \o
         Suffix(NoWS(slices[i][3]),
                Len(NoWS(Slice(text, PrevEnd(i), slices[i][2]))))

NonEmptyChunks == SelectSeq([i \in 1..Len(slices) |-> slices[i][3]],
                            LAMBDA c : c # <<>>)

\* C5: with chunk_size > overlap, the slices cut from a non-empty text start
\* at 0, each starts no later than the previous one ends, the last ends at the
\* end of the text, every position lies in a slice, and the chunks, each cut
\* down to what lies beyond the previous slice, rebuild the text up to
\* whitespace.
C5_SlicesCoverText ==
    (cpc = "done" /\ chunk_size > overlap /\ text # <<>>) =>
        /\ slices # <<>>
        /\ slices[1][1] = 0
        /\ \A i \in 2..Len(slices) :
             /\ slices[i][1] <= slices[i - 1][2]
             /\ slices[i - 1][2] <= slices[i][2]
        /\ slices[Len(slices)][2] = Len(text)
        /\ \A p \in 0..(Len(text) - 1) :
             \E i \in 1..Len(slices) : slices[i][1] <= p /\ p < slices[i][2]
        /\ chunks = NonEmptyChunks
        /\ Rebuilt(Len(slices)) = NoWS(text)

\* a text cut into three slices, the second overlapping the first
C5_Witness ==
    /\ cpc = "done"
    /\ chunk_size > overlap
    /\ Len(slices) >= 3
    /\ slices[2][1] < slices[1][2]
    /\ Len(chunks) < Len(slices)

\* C6 as stated: every non-empty text no longer than chunk_size gives exactly
\* one chunk.
C6_OneChunkAnyText ==
    (cpc = "done" /\ text # <<>> /\ Len(text) <= chunk_size) => Len(chunks) = 1

\* C6 as amended: a text no longer than chunk_size gives exactly one chunk,
\* the trimmed text, when it holds a character that is not whitespace, and no
\* chunk when it is made of whitespace only.
C6_OneChunkUnlessBlank ==
    (cpc = "done" /\ text # <<>> /\ Len(text) <= chunk_size) =>
        IF NoWS(text) # <<>>
        THEN chunks = <<Strip(text)>> /\ Len(slices) = 1
        ELSE chunks = <<>>

\* a short text holding a newline and surrounding whitespace gave one chunk,
\* shorter than the text
C6_Witness ==
    /\ cpc = "done"
    /\ Len(text) <= chunk_size
    /\ Len(chunks) = 1
    /\ Len(chunks[1]) < Len(text)
    /\ \E i \in 1..Len(text) : text[i] = "\n"

\* the start that followed iteration i
StartAfter(i) == IF i < Len(slices) THEN slices[i + 1][1] ELSE start

\* the iterations that did not reach the end of the text
NonFinal == {i \in 1..Len(slices) : slices[i][2] # Len(text)}

\* C23: after a chunk that ends at end before the end of the text, the next
\* start is end - overlap when that is greater than the current start and end
\* otherwise; it is greater than the current start and not greater than end.
C23_NextStartRule ==
    \A i \in NonFinal :
        /\ StartAfter(i) =
              IF slices[i][2] - overlap > slices[i][1]
              THEN slices[i][2] - overlap
              ELSE slices[i][2]
        /\ slices[i][1] < StartAfter(i)
        /\ StartAfter(i) <= slices[i][2]

\* a run in which the second chunk starts overlap characters before the end
\* of the first and the third starts where the second ends
C23_Witness ==
    /\ cpc = "done"
    /\ overlap > 0
    /\ Len(slices) >= 3
    /\ slices[2][1] = slices[1][2] - overlap
    /\ slices[3][1] = slices[2][2]

\* C26 as stated: with chunk_size > overlap the cut position end grows from
\* every iteration to the next, so that every chunk emitted after the first
\* reaches beyond the end of the previous one.
C26_EndStrictlyIncreases ==
    chunk_size > overlap =>
        \A i \in 2..Len(slices) : slices[i - 1][2] < slices[i][2]

\* C26 as amended: with chunk_size > overlap the cut position end never
\* decreases and start grows from every iteration to the next; end stays the
\* same for at most one iteration, whose slice lies inside the previous one.
C26_EndNeverDecreases ==
    chunk_size > overlap =>
        /\ \A i \in 2..Len(slices) :
             /\ slices[i - 1][2] <= slices[i][2]
             /\ slices[i - 1][1] < slices[i][1]
        /\ \A i \in 3..Len(slices) : slices[i - 2][2] < slices[i][2]

\* the second iteration cut at the same place as the first and emitted a
\* chunk made of text of the first chunk
C26_Witness ==
    /\ cpc = "done"
    /\ chunk_size > overlap
    /\ Len(slices) >= 3
    /\ slices[2][2] = slices[1][2]
    /\ slices[2][3] # <<>>
    /\ Len(chunks) = Len(slices)

----------------------------------------------------------------------------
(* Claims about chat.ChatEngine (specification ChatSpec) *)

NativeContentFrames(p) ==
    IF p = "vllm" THEN VllmContentFrames ELSE OllamaContentFrames

Sentinel(p) == IF p = "vllm" THEN VllmDoneFrame ELSE OllamaDoneFrame

\* the backend answered 2xx and sent non-empty content fragments f1..fn in
\* frames of its own wire shape, then its done sentinel
CleanStream ==
    /\ mode = "stream" /\ status = "2xx" /\ fault = "none"
    /\ frames # <<>>
    /\ frames[Len(frames)] = Sentinel(provider)
    /\ \A i \in 1..(Len(frames) - 1) :
         frames[i] \in NativeContentFrames(provider) /\ frames[i].content # <<>>

Fragments == [i \in 1..(Len(frames) - 1) |-> frames[i].content]

CitationFragments ==
    IF get_sources(results) # <<>>
    THEN <<Citation(get_sources(results))>>
    ELSE <<>>

\* C7: when the backend sends fragments f1..fn and then its done sentinel,
\* query_stream yields exactly f1..fn in order, then the citation fragment
\* iff there are sources, and nothing else.
C7_StreamYieldsFragmentsThenCitation ==
    (qpc = "done" /\ CleanStream) => out = Fragments \o CitationFragments

ForwardsUnchanged ==
    (qpc = "stream" /\ qpc' = "stream" /\ out' # out) =>
        out' = Append(out, frames'[Len(frames')].content)

\* C8: every fragment forwarded while streaming is the content of the frame
\* just received, unchanged.
C8_FragmentsForwardedUnchanged == [][ForwardsUnchanged]_vars

\* the backend answered 2xx and every line received was a content frame of
\* its own wire shape, its done sentinel, or a line that is not JSON
OnlyMalformedAmiss ==
    /\ mode = "stream" /\ status = "2xx" /\ fault = "none"
    /\ \A i \in 1..Len(frames) :
         frames[i] \in NativeContentFrames(provider)
                          \cup {Sentinel(provider), BadFrame}
    /\ \E i \in 1..Len(frames) : frames[i] = BadFrame

\* C9: a line that is not JSON is skipped and is not fatal, on both backends:
\* the stream ends without an error fragment, and with the citation fragment
\* when there are sources.
C9_MalformedFrameSkipped ==
    (qpc = "done" /\ OnlyMalformedAmiss) =>
        /\ \A i \in 1..Len(out) : out[i] # StreamError(provider)
        /\ get_sources(results) # <<>> =>
             (out # <<>> /\ out[Len(out)] = Citation(get_sources(results)))

BackendFailed == fault # "none" \/ status = "non2xx"

\* C10: when the call of the generation backend fails (transport error,
\* timeout, non-2xx status), query returns the error string, query_stream
\* yields the error string as its last fragment, and no citation is produced.
C10_BackendFailureReported ==
    (qpc = "done" /\ BackendFailed) =>
        /\ out # <<>>
        /\ out[Len(out)] = IF mode = "query" THEN QueryError(provider)
                           ELSE StreamError(provider)
        /\ \A i \in 1..Len(out) : out[i] # Citation(get_sources(results))

\* C11: a failure of the retrieval step (the embedder or the vector store
\* raising) does not escape query or query_stream as an exception.
C11_RetrievalFailureDegraded == qpc # "raised"

SourcesHeader == "\n\n**Sources:**\n"

HasSourcesBlock(fragment) ==
    \E k \in 1..Len(fragment) : fragment[k] = SourcesHeader

\* C12: when the store returns no documents the context is exactly the
\* fallback string "No context available." and nothing the engine returns or
\* yields has a Sources block; the context is never empty.
C12_NoDocumentsFallback ==
    qpc \notin {"retrieve", "raised"} =>
        /\ context_text # <<>>
        /\ results = <<>> =>
             /\ context_text = <<"No context available.">>
             /\ \A i \in 1..Len(out) : ~HasSourcesBlock(out[i])

\* a stream over an empty retrieval has ended after yielding a fragment
C12_Witness ==
    /\ qpc = "done"
    /\ mode = "stream"
    /\ results = <<>>
    /\ status = "2xx"
    /\ fault = "none"
    /\ out = << <<"Hel">> >>

\* the distinct source values of the retrieved metadata
DistinctSources == {results[i] : i \in 1..Len(results)} \ {NoSource}

\* the sequences that list each distinct source once, in ascending order
AscendingListings ==
    {s \in UNION {[1..n -> SourceIds] : n \in 0..Cardinality(SourceIds)} :
        /\ {s[i] : i \in 1..Len(s)} = DistinctSources
        /\ \A i, j \in 1..Len(s) : i < j => s[i] < s[j]}

\* the part of a fragment from the Sources header on
SourcesBlock(fragment) ==
    LET k == CHOOSE k \in 1..Len(fragment) : fragment[k] = SourcesHeader
    IN  SubSeq(fragment, k, Len(fragment))

\* the generation ended without an error text
Generated ==
    /\ qpc = "done"
    /\ \A i \in 1..Len(out) :
          out[i] # QueryError(provider) /\ out[i] # StreamError(provider)

\* C13: after a successful generation the citation block lists each distinct
\* source of the retrieved metadata once, in ascending order, one "- source"
\* bullet a line (b, a, a give "- a" then "- b"); entries without a source
\* add nothing, and without any source there is no block.
C13_CitationSortedDistinct ==
    Generated =>
        /\ DistinctSources # {} =>
             /\ out # <<>>
             /\ HasSourcesBlock(out[Len(out)])
        /\ \A i \in 1..Len(out) :
             HasSourcesBlock(out[i]) =>
                /\ i = Len(out)
                /\ DistinctSources # {}
                /\ \E s \in AscendingListings :
                      SourcesBlock(out[i]) =
                         <<SourcesHeader>> \o
                         (IF Len(s) = 1 THEN <<"- ", SourceName(s[1])>>
                          ELSE <<"- ", SourceName(s[1]), "\n",
                                 "- ", SourceName(s[2])>>)

\* the metadata sources b, a, a were cited as "- a" then "- b"
C13_Witness ==
    /\ Generated
    /\ results = <<2, 1, 1>>
    /\ mode = "query"
    /\ SourcesBlock(out[1]) = <<SourcesHeader, "- ", "a", "\n", "- ", "b">>

\* C24: in streaming mode a non-2xx answer of the backend makes query_stream
\* yield an error fragment naming the backend, on both backends, and the
\* stream does not end as after a successful generation.
C24_StreamNon2xxReported ==
    (qpc = "done" /\ mode = "stream" /\ status = "non2xx") =>
        /\ \E i \in 1..Len(out) : out[i] = StreamError(provider)
        /\ \A i \in 1..Len(out) : ~HasSourcesBlock(out[i])

\* the concatenation of a sequence of strings
RECURSIVE Flatten(_)
Flatten(strings) ==
    IF strings = <<>> THEN <<>> ELSE Head(strings) \o Flatten(Tail(strings))

\* what query returns when the backend succeeds with the completion text
QueryAnswer(completion) ==
    LET resp == [body |-> IF provider = "vllm" THEN "message" ELSE "object",
                 content |-> completion]
        sources == get_sources(results)
    IN  query_backend(provider, resp).text \o
        (IF sources # <<>> THEN Citation(sources) ELSE <<>>)

\* C27: for the same retrieval and the same completion text, sent by the
\* backend as fragments and then its done sentinel, the fragments yielded by
\* query_stream concatenate to the string that query returns.
C27_StreamEqualsQuery ==
    (qpc = "done" /\ CleanStream) =>
        Flatten(out) = QueryAnswer(Flatten(Fragments))

----------------------------------------------------------------------------
(* Claims about ChatEngine.__init__ (specification ConstructSpec) *)

\* the engine is constructed for the local-model backend
LocalBackend ==
    LowerToken(IF argProvider # "" THEN argProvider ELSE envProvider) = "ollama"

\* the model name the constructor is given: the argument, else the environment
GivenName == IF argModel # <<>> THEN argModel ELSE envModel

ContainsNoTag(name) ==
    \A i \in 1..Len(name) : name[i] \notin {"q4", "q5", "q6", "q8"}

\* C14: for the local-model backend the constructor raises a configuration
\* error for "llama3:latest" and for every name without one of the tags q4, q5,
\* q6, q8, it succeeds for "llama3:8b-instruct-q4_K_M", and the engine never
\* holds another model name than the one it was given.
C14_UnquantizedModelRejected ==
    /\ ollama_model \in {<<>>, GivenName}
    /\ (LocalBackend /\ kpc \in {"ready", "raised"}) =>
         /\ GivenName = <<"llama3", ":latest">> => kpc = "raised"
         /\ ContainsNoTag(GivenName) =>
              /\ kpc = "raised"
              /\ cerr \in {"required", "unquantized", "appears unquantized"}
              /\ ollama_model = <<>>
         /\ GivenName = <<"llama3:8b-instruct-", "q4", "_K_M">> =>
              /\ kpc = "ready"
              /\ cerr = "none"
         /\ kpc = "ready" => ollama_model = GivenName

\* "llama3:latest", passed as argument, was rejected although the environment
\* holds an acceptable default
C14_Witness ==
    /\ kpc = "raised"
    /\ argProvider = "OLLAMA"
    /\ argModel = <<"llama3", ":latest">>
    /\ envModel = <<"llama3:8b-instruct-", "q4", "_K_M">>
    /\ cerr = "unquantized"
    /\ ollama_model = <<>>

\* the backend selected for the engine: the argument, else the environment
SelectedBackend ==
    LowerToken(IF argProvider # "" THEN argProvider ELSE envProvider)

\* C25: the model-name validation applies to the local-model backend only:
\* with the HTTP chat-completions backend selected the constructor does not
\* fail, and the engine holds the backend that was selected.
C25_GateOnlyForLocalModel ==
    /\ SelectedBackend = "vllm" => kpc # "raised"
    /\ kpc = "ready" => llm_provider = SelectedBackend

----------------------------------------------------------------------------
(* Claims about utils.normalize_url (specification NormSpec) *)

\* C15: normalize_url is idempotent, and its result holds no '#' and does not
\* end with '/'.
C15_NormalizeIdempotent ==
    /\ npc >= 1 =>
         /\ \A i \in 1..Len(normalized) : normalized[i] # "#"
         /\ (normalized # <<>> => normalized[Len(normalized)] # "/")
    /\ npc = 2 => renormalized = normalized

\* "a/#/" was normalized twice
C15_Witness ==
    /\ npc = 2
    /\ raw_url = <<"a", "/", "#", "/">>
    /\ renormalized = <<"a">>

\* the prefix of the url before its first '#'
PrefixBeforeHash ==
    LET hashes == {i \in 1..Len(raw_url) : raw_url[i] = "#"}
        first == IF hashes = {} THEN Len(raw_url) + 1
                 ELSE CHOOSE i \in hashes : \A j \in hashes : i <= j
    IN  SubSeq(raw_url, 1, first - 1)

\* C16 as stated: the result is the prefix before the first '#' with exactly
\* one trailing '/' removed if there is one.
C16_StripsOneSlash ==
    npc >= 1 =>
        normalized =
            IF PrefixBeforeHash # <<>>
               /\ PrefixBeforeHash[Len(PrefixBeforeHash)] = "/"
            THEN SubSeq(PrefixBeforeHash, 1, Len(PrefixBeforeHash) - 1)
            ELSE PrefixBeforeHash

\* C16: the result is the prefix before the first '#' with every trailing '/'
\* removed, and nothing else changed.
C16_StripsAllSlashes ==
    npc >= 1 =>
        \E k \in 0..Len(PrefixBeforeHash) :
            /\ normalized = SubSeq(PrefixBeforeHash, 1, k)
            /\ \A i \in (k + 1)..Len(PrefixBeforeHash) : PrefixBeforeHash[i] = "/"
            /\ (k > 0 => PrefixBeforeHash[k] # "/")

\* "a//#" was normalized to "a"
C16_Witness ==
    /\ npc >= 1
    /\ raw_url = <<"a", "/", "/", "#">>
    /\ normalized = <<"a">>

----------------------------------------------------------------------------
(* Claims about extractor.extract_text_and_links (specification ExtractSpec) *)

Ascending(list) ==
    \A i \in 1..(Len(list) - 1) : StrLess(list[i], list[i + 1])

\* C18: the content links are among the links returned for the crawler, and
\* both returned lists are in ascending string order without duplicates.
C18_ContentLinksWithinAllLinks ==
    /\ contentLinks \subseteq allLinks
    /\ xpc = "done" =>
         /\ Range(extracted.content) \subseteq Range(extracted.all)
         /\ Range(extracted.content) = contentLinks
         /\ Range(extracted.all) = allLinks
         /\ Ascending(extracted.content)
         /\ Ascending(extracted.all)

\* a page with a link in the navigation and another in the body: two links
\* for the crawler, one of them a content link
C18_Witness ==
    /\ xpc = "done"
    /\ Len(html) = 2
    /\ html[1].region = "body"
    /\ html[2].region = "nav"
    /\ Len(extracted.all) = 2
    /\ Len(extracted.content) = 1

====
